---- MODULE Spec2Model ----
(***************************************************************************)
(* A model of skl_groups/divergences/knn.py: the parser that turns a list  *)
(* of divergence specs into an execution plan (_parse_specs, add_func,     *)
(* topological_sort) and the KNNDivergenceEstimator that fits one bag      *)
(* collection and transforms another (fit, transform, _finalize).          *)
(*                                                                         *)
(* Encodings.  Python's None is the empty tuple and a present value v is   *)
(* the one-element tuple <<v>>.  A float alpha is written in tenths (0.5   *)
(* is 5).  A dict is a function whose DOMAIN is its key set; the order in  *)
(* which a plain dict or a set is iterated is not fixed by the language    *)
(* version the code supports, so it is a nondeterministic choice.          *)
(***************************************************************************)
EXTENDS Integers, Sequences, FiniteSets, TLC

\* ------------------------------------------------------------------ bounds

MaxSpecs == 3

MaxNodes == 3

MaxBag == 5

\* ------------------------------------------------------------ small helpers

None == << >>

Some(v) == << v >>

Max2(a, b) == IF a >= b THEN a ELSE b

Min2(a, b) == IF a <= b THEN a ELSE b

SetMax(S) == CHOOSE x \in S : \A y \in S : y <= x

SetMin(S) == CHOOSE x \in S : \A y \in S : x <= y

Range(s) == { s[i] : i \in 1..Len(s) }

\* all the orders in which the elements of S can be iterated
RECURSIVE Orders(_)
Orders(S) == IF S = {} THEN { << >> } ELSE UNION { { << x >> \o p : p \in Orders(S \ {x}) } : x \in S }

\* list.index(x): the first index holding x, 0 standing for "raises ValueError"
IndexOf(s, x) == IF \E i \in 1..Len(s) : s[i] = x THEN CHOOSE i \in 1..Len(s) : s[i] = x /\ \A j \in 1..(i-1) : s[j] # x ELSE 0

\* ---------------------------------------------------------------- registry

BaseFuncs == {"linear", "kl", "alpha_div", "jensen_shannon_core"}

MetaFuncs == {"bhattacharyya", "hellinger", "renyi", "tsallis", "l2", "jensen_shannon"}

\* getattr(func, 'needs_alpha', False)
needs_alpha(f) == f \in {"alpha_div", "renyi", "tsallis"}

\* hasattr(func, 'needs_results')
is_meta(f) == f \in MetaFuncs

\* MetaRequirement(func, alpha, needs_transpose); alpha is None, a scalar or
\* a callable (the registry only uses utils.identity)
MetaRequirement(f, a, t) == [func |-> f, alpha |-> a, needs_transpose |-> t]

AlphaNone == [kind |-> "none", value |-> 0]

AlphaScalar(v) == [kind |-> "scalar", value |-> v]

AlphaIdentity == [kind |-> "callable", value |-> 0]

needs_results(f) ==
    CASE f = "bhattacharyya" -> << MetaRequirement("alpha_div", AlphaScalar(5), FALSE) >>
      [] f = "hellinger" -> << MetaRequirement("alpha_div", AlphaScalar(5), FALSE) >>
      [] f = "renyi" -> << MetaRequirement("alpha_div", AlphaIdentity, FALSE) >>
      [] f = "tsallis" -> << MetaRequirement("alpha_div", AlphaIdentity, FALSE) >>
      [] f = "l2" -> << MetaRequirement("linear", AlphaNone, TRUE) >>
      [] f = "jensen_shannon" -> << MetaRequirement("jensen_shannon_core", AlphaNone, TRUE) >>
      [] OTHER -> << >>

\* needs_rhos: (X_rhos, Y_rhos)
needs_rhos(f) == IF f \in {"l2", "jensen_shannon"} THEN << TRUE, TRUE >> ELSE << FALSE, FALSE >>

needs_all_ks(f) == f = "jensen_shannon_core"

FuncNames == {"linear", "kl", "alpha", "bc", "hellinger", "renyi", "tsallis", "l2", "js-core", "js", "jensen-shannon"}

func_mapping(name) ==
    CASE name = "linear" -> "linear"
      [] name = "kl" -> "kl"
      [] name = "alpha" -> "alpha_div"
      [] name = "bc" -> "bhattacharyya"
      [] name = "hellinger" -> "hellinger"
      [] name = "renyi" -> "renyi"
      [] name = "tsallis" -> "tsallis"
      [] name = "l2" -> "l2"
      [] name = "js-core" -> "jensen_shannon_core"
      [] name = "js" -> "jensen_shannon"
      [] name = "jensen-shannon" -> "jensen_shannon"

\* ------------------------------------------------------------- spec tokens

\* the text after the ':' of a spec; "x" is not a float literal
AlphaTexts == {"0.5", ".5", "0.9", "x"}

\* float(alpha), in tenths; None stands for "raises ValueError"
float(text) ==
    CASE text = "0.5" -> Some(5)
      [] text = ".5" -> Some(5)
      [] text = "0.9" -> Some(9)
      [] OTHER -> None

\* spec.split(':', 1): a name and, when the spec holds a ':', the text after it
SpecTokens == [name : FuncNames \cup {"bogus"}, alpha : {None} \cup { Some(t) : t \in AlphaTexts }]

\* ------------------------------------------------------------ _parse_specs

\* funcs = {}, metas = {}, meta_deps = defaultdict(set); err is the kind of
\* ValueError raised, "" while none was; counter is the value meta_counter
\* yields next
EmptyParse == [funcs |-> << >>, metas |-> << >>, meta_deps |-> << >>, err |-> "", counter |-> -1]

Raise(S, kind) == [S EXCEPT !.err = kind]

\* d[k] = v
Put(d, k, v) == (k :> v) @@ d

\* the alpha a requirement asks of the required function, for the meta's alpha
req_alpha_of(req, alpha) == IF req.alpha.kind = "callable" THEN alpha ELSE IF req.alpha.kind = "scalar" THEN Some(req.alpha.value) ELSE None

\* meta_deps[func].add(req_func); meta_deps[req_func]
add_edge(meta_deps, func, req_func) ==
    LET old == IF func \in DOMAIN meta_deps THEN meta_deps[func] ELSE {}
        md1 == Put(meta_deps, func, old \cup {req_func})
    IN IF req_func \in DOMAIN md1 THEN md1 ELSE Put(md1, req_func, {})

RECURSIVE add_func(_, _, _, _)
RECURSIVE add_reqs(_, _, _, _, _)

\* the loop "for req in func.needs_results" of add_func, from requirement k on;
\* edges is TRUE in the branch that creates the node (it records meta_deps)
add_reqs(S, func, alpha, k, edges) ==
    IF k > Len(needs_results(func)) THEN S
    ELSE LET req == needs_results(func)[k]
             S1 == add_func(S, req.func, req_alpha_of(req, alpha), None)
             S2 == IF edges THEN [S1 EXCEPT !.meta_deps = add_edge(S1.meta_deps, func, req.func)] ELSE S1
         IN add_reqs(S2, func, alpha, k + 1, edges)

\* add_func without the two "passed more than once" tests: a second request
\* takes the slot over
add_func_overwrite(S, func, alpha, pos) ==
    LET meta == is_meta(func)
        d == IF meta THEN S.metas ELSE S.funcs
        store(info) == IF meta THEN [S EXCEPT !.metas = Put(S.metas, func, info)] ELSE [S EXCEPT !.funcs = Put(S.funcs, func, info)]
    IN IF func \notin DOMAIN d
       THEN LET alphas == IF needs_alpha(func) THEN << alpha >> ELSE None
            IN IF ~meta
               THEN store([alphas |-> alphas, pos |-> << pos >>])
               ELSE add_reqs(store([alphas |-> alphas, pos |-> << pos >>, deps |-> << >>]), func, alpha, 1, TRUE)
       ELSE LET info == d[func]
            IN IF ~needs_alpha(func)
               THEN IF pos # None THEN store([info EXCEPT !.pos[1] = pos]) ELSE S
               ELSE LET idx == IndexOf(info.alphas, alpha)
                    IN IF idx = 0
                       THEN LET S1 == store([info EXCEPT !.alphas = Append(@, alpha), !.pos = Append(@, pos)])
                            IN IF meta THEN add_reqs(S1, func, alpha, 1, FALSE) ELSE S1
                       ELSE IF pos # None THEN store([info EXCEPT !.pos[idx] = pos]) ELSE S

\* add_func without the look-up of the alpha in the alphas seen so far: every
\* alpha of a function that is already there is taken for a new one
add_func_append(S, func, alpha, pos) ==
    LET meta == is_meta(func)
        d == IF meta THEN S.metas ELSE S.funcs
        store(info) == IF meta THEN [S EXCEPT !.metas = Put(S.metas, func, info)] ELSE [S EXCEPT !.funcs = Put(S.funcs, func, info)]
    IN IF func \notin DOMAIN d
       THEN LET alphas == IF needs_alpha(func) THEN << alpha >> ELSE None
            IN IF ~meta
               THEN store([alphas |-> alphas, pos |-> << pos >>])
               ELSE add_reqs(store([alphas |-> alphas, pos |-> << pos >>, deps |-> << >>]), func, alpha, 1, TRUE)
       ELSE LET info == d[func]
            IN IF ~needs_alpha(func)
               THEN IF pos # None
                    THEN IF info.pos # << None >>
                         THEN Raise(S, "duplicate")
                         ELSE store([info EXCEPT !.pos[1] = pos])
                    ELSE S
               ELSE LET S1 == store([info EXCEPT !.alphas = Append(@, alpha), !.pos = Append(@, pos)])
                    IN IF meta THEN add_reqs(S1, func, alpha, 1, FALSE) ELSE S1

\* add_func without the registration of the requirements for a new alpha of a
\* meta that is already there
add_func_no_recurse(S, func, alpha, pos) ==
    LET meta == is_meta(func)
        d == IF meta THEN S.metas ELSE S.funcs
        store(info) == IF meta THEN [S EXCEPT !.metas = Put(S.metas, func, info)] ELSE [S EXCEPT !.funcs = Put(S.funcs, func, info)]
    IN IF func \notin DOMAIN d
       THEN LET alphas == IF needs_alpha(func) THEN << alpha >> ELSE None
            IN IF ~meta
               THEN store([alphas |-> alphas, pos |-> << pos >>])
               ELSE add_reqs(store([alphas |-> alphas, pos |-> << pos >>, deps |-> << >>]), func, alpha, 1, TRUE)
       ELSE LET info == d[func]
            IN IF ~needs_alpha(func)
               THEN IF pos # None
                    THEN IF info.pos # << None >>
                         THEN Raise(S, "duplicate")
                         ELSE store([info EXCEPT !.pos[1] = pos])
                    ELSE S
               ELSE LET idx == IndexOf(info.alphas, alpha)
                    IN IF idx = 0
                       THEN store([info EXCEPT !.alphas = Append(@, alpha), !.pos = Append(@, pos)])
                       ELSE IF pos # None
                            THEN IF info.pos[idx] # None
                                 THEN Raise(S, "duplicate")
                                 ELSE store([info EXCEPT !.pos[idx] = pos])
                            ELSE S

add_func(S, func, alpha, pos) ==
    LET meta == is_meta(func)
        d == IF meta THEN S.metas ELSE S.funcs
        store(info) == IF meta THEN [S EXCEPT !.metas = Put(S.metas, func, info)] ELSE [S EXCEPT !.funcs = Put(S.funcs, func, info)]
    IN IF func \notin DOMAIN d
       THEN LET alphas == IF needs_alpha(func) THEN << alpha >> ELSE None
            IN IF ~meta
               THEN store([alphas |-> alphas, pos |-> << pos >>])
               ELSE add_reqs(store([alphas |-> alphas, pos |-> << pos >>, deps |-> << >>]), func, alpha, 1, TRUE)
       ELSE LET info == d[func]
            IN IF ~needs_alpha(func)
               THEN IF pos # None
                    THEN IF info.pos # << None >>
                         THEN Raise(S, "duplicate")
                         ELSE store([info EXCEPT !.pos[1] = pos])
                    ELSE S
               ELSE LET idx == IndexOf(info.alphas, alpha)
                    IN IF idx = 0
                       THEN LET S1 == store([info EXCEPT !.alphas = Append(@, alpha), !.pos = Append(@, pos)])
                            IN IF meta THEN add_reqs(S1, func, alpha, 1, FALSE) ELSE S1
                       ELSE IF pos # None
                            THEN IF info.pos[idx] # None
                                 THEN Raise(S, "duplicate")
                                 ELSE store([info EXCEPT !.pos[idx] = pos])
                            ELSE S

\* the loop body with the specs counted from 1
parse_spec_from_one(S, spec, i) ==
    LET alpha == IF spec.alpha # None THEN float(spec.alpha[1]) ELSE None
    IN IF spec.alpha # None /\ alpha = None THEN Raise(S, "float")
       ELSE IF spec.name \notin FuncNames THEN Raise(S, "unknown")
       ELSE LET func == func_mapping(spec.name)
            IN IF needs_alpha(func) /\ alpha = None THEN Raise(S, "needs_alpha")
               ELSE IF ~needs_alpha(func) /\ alpha # None THEN Raise(S, "no_alpha")
               ELSE add_func(S, func, alpha, Some(i + 1))

\* the loop body without the test "doesn't need alpha but is passed"
parse_spec_lenient(S, spec, i) ==
    LET alpha == IF spec.alpha # None THEN float(spec.alpha[1]) ELSE None
    IN IF spec.alpha # None /\ alpha = None THEN Raise(S, "float")
       ELSE IF spec.name \notin FuncNames THEN Raise(S, "unknown")
       ELSE LET func == func_mapping(spec.name)
            IN IF needs_alpha(func) /\ alpha = None THEN Raise(S, "needs_alpha")
               ELSE add_func(S, func, IF needs_alpha(func) THEN alpha ELSE None, Some(i))

\* one iteration of "for i, spec in enumerate(specs)"; i counts from 0
parse_spec(S, spec, i) ==
    LET alpha == IF spec.alpha # None THEN float(spec.alpha[1]) ELSE None
    IN IF spec.alpha # None /\ alpha = None THEN Raise(S, "float")
       ELSE IF spec.name \notin FuncNames THEN Raise(S, "unknown")
       ELSE LET func == func_mapping(spec.name)
            IN IF needs_alpha(func) /\ alpha = None THEN Raise(S, "needs_alpha")
               ELSE IF ~needs_alpha(func) /\ alpha # None THEN Raise(S, "no_alpha")
               ELSE add_func(S, func, alpha, Some(i))

\* the numbering of one pos list with a counter that does not advance
RECURSIVE number_pos_stuck(_, _, _)
number_pos_stuck(pos, i, c) ==
    IF i > Len(pos) THEN [pos |-> pos, c |-> c]
    ELSE IF pos[i] = None THEN number_pos_stuck([pos EXCEPT ![i] = Some(c)], i + 1, c)
    ELSE number_pos_stuck(pos, i + 1, c)

\* "if pos is None: info.pos[i] = next(meta_counter)" over one pos list, from
\* index i on; c is the value the counter yields next
RECURSIVE number_pos(_, _, _)
number_pos(pos, i, c) ==
    IF i > Len(pos) THEN [pos |-> pos, c |-> c]
    ELSE IF pos[i] = None THEN number_pos([pos EXCEPT ![i] = Some(c)], i + 1, c - 1)
    ELSE number_pos(pos, i + 1, c)

\* the numbering loop over the values of one dict, iterated in the order ord
RECURSIVE number_dict(_, _, _, _)
number_dict(d, ord, k, c) ==
    IF k > Len(ord) THEN [d |-> d, c |-> c]
    ELSE LET r == number_pos(d[ord[k]].pos, 1, c)
         IN number_dict([d EXCEPT ![ord[k]].pos = r.pos], ord, k + 1, r.c)

\* meta_counter = itertools.count(-1, step=-1) and the loop over
\* chain(itervalues(funcs), itervalues(metas)), funcs first and then metas, for
\* every order in which each dict can be iterated; the results also carry the
\* counter
number_hidden(S) ==
    UNION { { [S EXCEPT !.funcs = rf.d, !.metas = rm.d, !.counter = rm.c] :
                rm \in { number_dict(S.metas, ordM, 1, rf.c) : ordM \in Orders(DOMAIN S.metas) } } :
            rf \in { number_dict(S.funcs, ordF, 1, -1) : ordF \in Orders(DOMAIN S.funcs) } }

\* the info of the function a requirement names
req_info_of(S, req) == IF is_meta(req.func) THEN S.metas[req.func] ELSE S.funcs[req.func]

\* the alphas a requirement looks up in the required function's alpha list
req_alphas(info, req) == IF req.alpha.kind = "callable" THEN info.alphas ELSE << Some(req.alpha.value) >>

\* req_info.alphas.index finds every alpha the requirement asks for, and
\* "pos, = req_info.pos" unpacks exactly one element
req_found(S, info, req) ==
    IF req.alpha.kind = "none" THEN Len(req_info_of(S, req).pos) = 1
    ELSE \A j \in 1..Len(req_alphas(info, req)) : IndexOf(req_info_of(S, req).alphas, req_alphas(info, req)[j]) # 0

\* the slots one requirement adds to deps
req_slots(S, info, req) ==
    IF req.alpha.kind = "none" THEN << req_info_of(S, req).pos[1][1] >>
    ELSE [ j \in 1..Len(req_alphas(info, req)) |-> req_info_of(S, req).pos[IndexOf(req_info_of(S, req).alphas, req_alphas(info, req)[j])][1] ]

RECURSIVE meta_slots(_, _, _, _)
meta_slots(S, func, info, k) ==
    IF k > Len(needs_results(func)) THEN << >>
    ELSE req_slots(S, info, needs_results(func)[k]) \o meta_slots(S, func, info, k + 1)

\* "fill in the dependencies for metas"
fill_deps(S) ==
    IF \E f \in DOMAIN S.metas : \E k \in 1..Len(needs_results(f)) : ~req_found(S, S.metas[f], needs_results(f)[k])
    THEN Raise(S, "alpha_not_found")
    ELSE [S EXCEPT !.metas = [ f \in DOMAIN S.metas |-> [S.metas[f] EXCEPT !.deps = meta_slots(S, f, S.metas[f], 1)] ]]

\* --------------------------------------------------------- topological_sort

\* order = [], available = set(), and the dict handed in
TopoStart(deps) == [order |-> << >>, available |-> {}, deps |-> deps]

\* _move_available() without the test "if not parents": every key is moved
move_available_eager(T) ==
    [order |-> T.order, available |-> T.available \cup DOMAIN T.deps, deps |-> << >>]

\* _move_available()
move_available(T) ==
    LET to_delete == { n \in DOMAIN T.deps : T.deps[n] = {} }
    IN [order |-> T.order, available |-> T.available \cup to_delete, deps |-> [ n \in (DOMAIN T.deps) \ to_delete |-> T.deps[n] ]]

\* one iteration of "while available" in which available.pop() yields n
topo_pop(T, n) ==
    move_available([order |-> Append(T.order, n), available |-> T.available \ {n}, deps |-> [ m \in DOMAIN T.deps |-> T.deps[m] \ {n} ]])

\* what follows the loop: "if available: raise ValueError" and "return order"
topo_raises(T) == T.available # {}

\* every state in which the loop of topological_sort can be left
RECURSIVE topo_run(_)
topo_run(T) == IF T.available = {} THEN { T } ELSE UNION { topo_run(topo_pop(T, n)) : n \in T.available }

topological_sort(deps) == topo_run(move_available(TopoStart(deps)))

\* OrderedDict((f, metas[f]) for f in meta_order if hasattr(f, 'needs_results')):
\* the keys, in order
RECURSIVE metas_ordered_of(_)
metas_ordered_of(order) ==
    IF order = << >> THEN << >>
    ELSE IF is_meta(Head(order)) THEN << Head(order) >> \o metas_ordered_of(Tail(order))
    ELSE metas_ordered_of(Tail(order))

\* -next(meta_counter) - 1
n_meta_only_of(counter) == (0 - counter) - 1

\* ------------------------------------------------- the planner, step by step

VARIABLES entry, specs, parse, sort_input, topo, pc, plan

planVars == << entry, specs, parse, sort_input, topo, pc, plan >>

\* the estimator's attributes, and a record of its last call
VARIABLES div_funcs, Ks, do_sym, base, max_K_, features_, indices_, rhos_, call

estVars == << div_funcs, Ks, do_sym, base, max_K_, features_, indices_, rhos_, call >>

\* the estimator's FLANN configuration, and the indices last built with it
VARIABLES flann_algorithm, flann_args, flann_index

flannVars == << flann_algorithm, flann_args, flann_index >>

\* the last evaluation of a clamped meta-function: what it was handed and
\* what it returned
VARIABLES meta_call

metaVars == << meta_call >>

\* one point's radii: what the index returned for it, what _get_rhos made
\* of it and what _finalize handed to the meta-functions
VARIABLES rho_call

rhoVars == << rho_call >>

\* add_func call by call, over a registry that is handed in: the registry,
\* the calls the loop over the specs has still to make, the stack of running
\* add_func calls, the entries of funcs and metas, meta_deps, and where
\* _parse_specs is
VARIABLES reg, pending, frames, entries, edges, phase

addVars == << reg, pending, frames, entries, edges, phase >>

vars == << entry, specs, parse, sort_input, topo, pc, plan, div_funcs, Ks, do_sym, base, max_K_, features_, indices_, rhos_, call, flann_algorithm, flann_args, flann_index, meta_call, rho_call, reg, pending, frames, entries, edges, phase >>

NodeNames == << "n1", "n2", "n3", "n4", "n5" >>

TopoNodes == { NodeNames[i] : i \in 1..MaxNodes }

\* the dicts topological_sort can be handed: child => set of parents, every
\* parent a key (as meta_deps[req.func] makes sure)
TopoInputs == UNION { [K -> SUBSET K] : K \in SUBSET TopoNodes }

NoPlan == [funcs |-> << >>, metas |-> << >>, metas_ordered |-> << >>, n_meta_only |-> 0]

\* a call of _parse_specs, or a call of topological_sort on a dict of its own
PlanInit ==
    /\ specs = << >>
    /\ parse = EmptyParse
    /\ plan = NoPlan
    /\ \/ /\ entry = "_parse_specs"
          /\ pc = "specs"
          /\ sort_input = << >>
          /\ topo = TopoStart(<< >>)
       \/ /\ entry = "topological_sort"
          /\ pc = "sort"
          /\ sort_input \in TopoInputs
          /\ topo = TopoStart(sort_input)

\* one iteration of the loop over the specs
AddSpec ==
    /\ pc = "specs"
    /\ Len(specs) < MaxSpecs
    /\ \E spec \in SpecTokens :
        /\ specs' = Append(specs, spec)
        /\ parse' = parse_spec(parse, spec, Len(specs))
        /\ pc' = IF parse_spec(parse, spec, Len(specs)).err # "" THEN "raised" ELSE "specs"
    /\ UNCHANGED << entry, sort_input, topo, plan >>
    /\ UNCHANGED estVars
    /\ UNCHANGED flannVars
    /\ UNCHANGED metaVars
    /\ UNCHANGED rhoVars
    /\ UNCHANGED addVars

\* what _parse_specs can make of a returned sort: it raised, or the keys of
\* metas_ordered
\* the filter "if hasattr(f, 'needs_results')" applied to the order so far; it
\* keeps the relative order of the metas, so applying it as nodes are appended
\* gives the list it gives when applied to the returned order
keep_metas(T) == [T EXCEPT !.order = metas_ordered_of(T.order)]

\* one more iteration of "while available" in every run that is still in the loop
sort_step(Ts) == UNION { IF T.available = {} THEN { T } ELSE { keep_metas(topo_pop(T, n)) : n \in T.available } : T \in Ts }

\* the runs of the loop, those that differ only in where the base functions
\* were popped taken together
RECURSIVE sort_all(_)
sort_all(Ts) == IF \A T \in Ts : T.available = {} THEN Ts ELSE sort_all(sort_step(Ts))

\* topological_sort(meta_deps) and the filter: whether it raises, and the
\* keys of metas_ordered in order, for every order available.pop() can take
sort_outcomes(deps) == { [raises |-> topo_raises(T), metas_ordered |-> T.order] : T \in sort_all({ keep_metas(move_available(TopoStart(deps))) }) }

\* the parse state after the numbering and the second pass, for every order
\* in which the two dicts can be iterated
numbered_and_filled(S) == { fill_deps(N) : N \in number_hidden(S) }

\* the specs are used up: number the hidden slots, fill in the deps, sort
\* meta_deps and return funcs, metas_ordered, -next(meta_counter) - 1
Finish ==
    /\ pc = "specs"
    /\ LET outcomes == sort_outcomes(parse.meta_deps)
       IN \E S \in numbered_and_filled(parse) :
        IF S.err # ""
        THEN parse' = S /\ pc' = "raised" /\ plan' = plan
        ELSE \E R \in outcomes :
               /\ parse' = IF R.raises THEN Raise(S, "cycle") ELSE S
               /\ pc' = IF R.raises THEN "raised" ELSE "returned"
               /\ plan' = IF R.raises THEN plan ELSE [funcs |-> S.funcs, metas |-> S.metas, metas_ordered |-> R.metas_ordered, n_meta_only |-> n_meta_only_of(S.counter)]
    /\ UNCHANGED << entry, specs, sort_input, topo >>
    /\ UNCHANGED estVars
    /\ UNCHANGED flannVars
    /\ UNCHANGED metaVars
    /\ UNCHANGED rhoVars
    /\ UNCHANGED addVars

\* topological_sort up to its loop: the first _move_available()
TopoEnter ==
    /\ pc = "sort"
    /\ topo' = move_available(topo)
    /\ pc' = "sorting"
    /\ UNCHANGED << entry, specs, parse, sort_input, plan >>
    /\ UNCHANGED estVars
    /\ UNCHANGED flannVars
    /\ UNCHANGED metaVars
    /\ UNCHANGED rhoVars
    /\ UNCHANGED addVars

\* one iteration of "while available"
TopoPop ==
    /\ pc = "sorting"
    /\ \E n \in topo.available : topo' = topo_pop(topo, n)
    /\ UNCHANGED << entry, specs, parse, sort_input, pc, plan >>
    /\ UNCHANGED estVars
    /\ UNCHANGED flannVars
    /\ UNCHANGED metaVars
    /\ UNCHANGED rhoVars
    /\ UNCHANGED addVars

\* the loop is left: raise on a cycle, or return the order
TopoReturn ==
    /\ pc = "sorting"
    /\ topo.available = {}
    /\ pc' = IF topo_raises(topo) THEN "raised" ELSE "sorted"
    /\ UNCHANGED << entry, specs, parse, sort_input, topo, plan >>
    /\ UNCHANGED estVars
    /\ UNCHANGED flannVars
    /\ UNCHANGED metaVars
    /\ UNCHANGED rhoVars
    /\ UNCHANGED addVars

PlanNext == AddSpec \/ Finish \/ TopoEnter \/ TopoPop \/ TopoReturn


\* ------------------------------------------------- _parse_specs as a whole

RECURSIVE parse_loop(_, _, _)
parse_loop(S, spec_list, i) ==
    IF i > Len(spec_list) \/ S.err # "" THEN S
    ELSE parse_loop(parse_spec(S, spec_list[i], i - 1), spec_list, i + 1)

\* a raised parse, as a result
RaisedPlan(kind) == [err |-> kind, funcs |-> << >>, metas |-> << >>, metas_ordered |-> << >>, n_meta_only |-> 0]

\* every result _parse_specs(spec_list, Ks) can have: the error raised, or
\* funcs, metas_ordered and the number of meta-only results
parse_specs(spec_list) ==
    LET S0 == parse_loop(EmptyParse, spec_list, 1)
    IN IF S0.err # "" THEN { RaisedPlan(S0.err) }
       ELSE UNION { IF S.err # "" THEN { RaisedPlan(S.err) }
                    ELSE { IF R.raises THEN RaisedPlan("cycle")
                           ELSE [err |-> "", funcs |-> S.funcs, metas |-> S.metas, metas_ordered |-> R.metas_ordered, n_meta_only |-> n_meta_only_of(S.counter)]
                           : R \in sort_outcomes(S.meta_deps) }
                  : S \in numbered_and_filled(S0) }

\* any(getattr(f, 'needs_all_ks', False) for f in self.funcs_base_)
save_all_Ks_of(P) == \E f \in DOMAIN P.funcs : needs_all_ks(f)

\* ------------------------------------------------ _get_jensen_shannon_core

\* a weight is the fraction num / den; the code computes it in floating point
Frac(a, b) == [num |-> a, den |-> b]

FracLess(x, y) == x.num * y.den < y.num * x.den

\* the pairs (n, m) of "for n, m in chain(n_ms, map(reversed, n_ms))"
js_pairs(X_ns, Y_ns) ==
    LET Yn == IF Y_ns = None THEN X_ns ELSE Y_ns[1]
        n_ms == { << n, m >> : n \in {X_ns.min, X_ns.max}, m \in {Yn.min, Yn.max} }
    IN n_ms \cup { << q[2], q[1] >> : q \in n_ms }

\* base = (2n - 1) / (n + m - 1) and base * m / n, for every pair
js_weights(X_ns, Y_ns) ==
    UNION { { Frac(2 * q[1] - 1, q[1] + q[2] - 1), Frac((2 * q[1] - 1) * q[2], (q[1] + q[2] - 1) * q[1]) } : q \in js_pairs(X_ns, Y_ns) }

\* wt_bounds[0] and wt_bounds[1]
js_min_wt(X_ns, Y_ns) == LET W == js_weights(X_ns, Y_ns) IN CHOOSE w \in W : \A v \in W : ~FracLess(v, w)

js_max_wt(X_ns, Y_ns) == LET W == js_weights(X_ns, Y_ns) IN CHOOSE w \in W : \A v \in W : ~FracLess(w, v)

\* the test with "<=" for "<"
js_raises_at_one(Ks_arr, X_ns, Y_ns) == LET w == js_min_wt(X_ns, Y_ns) IN w.num * SetMin(Range(Ks_arr)) <= w.den

\* "if wt_bounds[0] * min_K < 1: raise ValueError"
js_raises(Ks_arr, X_ns, Y_ns) == LET w == js_min_wt(X_ns, Y_ns) IN w.num * SetMin(Range(Ks_arr)) < w.den

\* "int(np.ceil(1 / wt_bounds[0]))", the minimum the error message gives
js_at_least(X_ns, Y_ns) == LET w == js_min_wt(X_ns, Y_ns) IN (w.den + w.num - 1) \div w.num

\* max_i = int(np.ceil(wt_bounds[1] * max_K)), returned as the K needed
js_k_needed(Ks_arr, X_ns, Y_ns) ==
    LET w == js_max_wt(X_ns, Y_ns)
    IN (w.num * SetMax(Range(Ks_arr)) + w.den - 1) \div w.den

\* ------------------------------------------- _set_up_funcs, _choose_funcs

\* _set_up_funcs raises when a chooser_fn does; only jensen_shannon_core's can
set_up_raises(P, Ks_arr, X_ns, Y_ns) == "jensen_shannon_core" \in DOMAIN P.funcs /\ js_raises(Ks_arr, X_ns, Y_ns)

\* _choose_funcs starting from Ks.max() alone
choose_max_K_fresh(P, Ks_arr, old_max_K, X_ns, Y_ns) ==
    LET m0 == SetMax(Range(Ks_arr))
    IN IF "jensen_shannon_core" \in DOMAIN P.funcs THEN Max2(m0, js_k_needed(Ks_arr, X_ns, Y_ns)) ELSE m0

\* the max_K_ that _choose_funcs stores: Ks.max(), the old max_K_ (0 when the
\* attribute is missing) and the k_needed of every function that has one
choose_max_K(P, Ks_arr, old_max_K, X_ns, Y_ns) ==
    LET m0 == Max2(SetMax(Range(Ks_arr)), old_max_K)
    IN IF "jensen_shannon_core" \in DOMAIN P.funcs THEN Max2(m0, js_k_needed(Ks_arr, X_ns, Y_ns)) ELSE m0

\* _check_Ks with ">" for ">=": a bag of exactly max_K_ points passes
check_Ks_strict(max_K, X_ns, Y_ns) == max_K > (IF Y_ns = None THEN X_ns.min ELSE Min2(X_ns.min, Y_ns[1].min))

\* _check_Ks raises: self.max_K_ >= min_pt
check_Ks_raises(max_K, X_ns, Y_ns) == max_K >= (IF Y_ns = None THEN X_ns.min ELSE Min2(X_ns.min, Y_ns[1].min))

\* a Jensen-Shannon spec is among the specs
has_js(d) == \E i \in 1..Len(d) : d[i].name \in {"js", "jensen-shannon"}

\* _get_rhos(X, indices): the radii of X's bags, from a query of max_K_ + 1
\* neighbours; all ranks 1..max_K_ are kept when save_all_Ks_, else the
\* columns Ks; what is remembered of them is whose they are, their depth and
\* columns, and whether div_funcs held a Jensen-Shannon spec when they were
\* computed
get_rhos(X_ns, max_K, save_all, Ks_arr, cfg) == [of |-> X_ns, depth |-> max_K, all |-> save_all, Ks |-> Ks_arr, js |-> has_js(cfg)]

\* the symmetric pass decided from the configuration alone
sym_pass_config_only(P, do_sym_cfg) == do_sym_cfg

\* "self.do_sym or {req_pos for ... if req.needs_transpose}", as a truth value
sym_pass(P, do_sym_cfg) ==
    \/ do_sym_cfg
    \/ \E f \in DOMAIN P.metas : \E k \in 1..Min2(Len(P.metas[f].deps), Len(needs_results(f))) : needs_results(f)[k].needs_transpose

\* ---------------------------------------------------------------- _finalize

\* outputs[[i]] and outputs[info.pos] are inside the n_slots slots of outputs
slot_in_range(i, n_slots) == (0 - n_slots) <= i /\ i < n_slots

\* what running one meta raises ("" when nothing): reading its deps, calling
\* it, writing its pos
meta_error(f, info, n_slots, has_Y_rhos) ==
    IF \E k \in 1..Len(info.deps) : ~slot_in_range(info.deps[k], n_slots) THEN "IndexError"
    ELSE IF needs_rhos(f)[2] /\ ~has_Y_rhos THEN "TypeError"
    ELSE IF f = "tsallis" THEN "TypeError"
    ELSE IF Len(info.deps) # 1 THEN "ValueError"
    ELSE IF \E k \in 1..Len(info.pos) : ~slot_in_range(info.pos[k][1], n_slots) THEN "IndexError"
    ELSE ""

\* the loop over self.metas_, from the k-th meta on: the first error
RECURSIVE metas_error(_, _, _, _)
metas_error(P, k, n_slots, has_Y_rhos) ==
    IF k > Len(P.metas_ordered) THEN ""
    ELSE LET e == meta_error(P.metas_ordered[k], P.metas[P.metas_ordered[k]], n_slots, has_Y_rhos)
         IN IF e # "" THEN e ELSE metas_error(P, k + 1, n_slots, has_Y_rhos)

\* the columns of a rho array
rho_columns(rhos) == IF rhos.all THEN rhos.depth ELSE Len(rhos.Ks)

\* "if self.save_all_Ks_": rho[:, self.Ks - 1] over X_rhos and Y_rhos
select_Ks_error(P, Ks_arr, X_rhos, has_Y_rhos) ==
    IF ~P.save_all_Ks THEN ""
    ELSE IF SetMax(Range(Ks_arr)) > rho_columns(X_rhos) THEN "IndexError"
    ELSE IF ~has_Y_rhos THEN "TypeError"
    ELSE ""

\* outputs[:-self.n_meta_only_] without the test "if self.n_meta_only_":
\* outputs[:-0] is empty
strip_always(n_slots, n_meta_only) == IF n_meta_only # 0 THEN Max2(n_slots - n_meta_only, 0) ELSE 0

\* "if self.n_meta_only_: outputs = outputs[:-self.n_meta_only_]": the length
\* of the function axis that is left
strip_meta_only(n_slots, n_meta_only) == IF n_meta_only # 0 THEN Max2(n_slots - n_meta_only, 0) ELSE n_slots

\* the index numpy reads for slot p of n_slots: a negative p counts from the end
slot_index(p, n_slots) == IF p < 0 THEN p + n_slots ELSE p

\* a meta whose result also lands in the slots it read
write_meta_over_deps(outputs, f, info, n_slots) ==
    [i \in DOMAIN outputs |->
        IF \/ \E k \in 1..Len(info.pos) : slot_index(info.pos[k][1], n_slots) = i
           \/ \E k \in 1..Len(info.deps) : slot_index(info.deps[k], n_slots) = i
        THEN f ELSE outputs[i]]

\* "required = [outputs[[i]] for i in info.deps]" hands the meta copies, and
\* "outputs[info.pos, :, :, :] = r" writes its result: who wrote each slot last
write_meta(outputs, f, info, n_slots) ==
    [i \in DOMAIN outputs |-> IF \E k \in 1..Len(info.pos) : slot_index(info.pos[k][1], n_slots) = i THEN f ELSE outputs[i]]

\* the loop over self.metas_, from the k-th meta on
RECURSIVE write_metas(_, _, _, _)
write_metas(outputs, P, k, n_slots) ==
    IF k > Len(P.metas_ordered) THEN outputs
    ELSE write_metas(write_meta(outputs, P.metas_ordered[k], P.metas[P.metas_ordered[k]], n_slots), P, k + 1, n_slots)

\* the writer of every slot when _finalize is through: the kernel, or a meta
finalize_slots(P, n_slots) == write_metas([i \in 0..(n_slots - 1) |-> "kernel"], P, 1, n_slots)

\* _finalize keeping the direction axis whenever the backward direction was
\* computed
finalize_keep_pass(P, n_slots, Ks_arr, do_sym_cfg, X_rhos, has_Y_rhos) ==
    LET e1 == select_Ks_error(P, Ks_arr, X_rhos, has_Y_rhos)
        e2 == IF e1 # "" THEN e1 ELSE metas_error(P, 1, n_slots, has_Y_rhos)
    IN [err |-> e2, n_funcs |-> strip_meta_only(n_slots, P.n_meta_only), direction_axis |-> has_Y_rhos,
        slots |-> IF e2 = "" THEN finalize_slots(P, n_slots) ELSE << >>]

\* _finalize(outputs, X_rhos, Y_rhos) on outputs of n_slots function slots:
\* the error raised, or the shape of what is returned
finalize(P, n_slots, Ks_arr, do_sym_cfg, X_rhos, has_Y_rhos) ==
    LET e1 == select_Ks_error(P, Ks_arr, X_rhos, has_Y_rhos)
        e2 == IF e1 # "" THEN e1 ELSE metas_error(P, 1, n_slots, has_Y_rhos)
    IN [err |-> e2, n_funcs |-> strip_meta_only(n_slots, P.n_meta_only), direction_axis |-> do_sym_cfg,
        slots |-> IF e2 = "" THEN finalize_slots(P, n_slots) ELSE << >>]

\* ------------------------------------------------- KNNDivergenceEstimator

Tok(n, a) == [name |-> n, alpha |-> a]

\* the div_funcs an estimator is given
DivFuncChoices ==
    { << Tok("kl", None) >>,
      << Tok("js", None) >>,
      << Tok("kl", None), Tok("js", None) >>,
      << Tok("hellinger", None) >>,
      << Tok("l2", None) >>,
      << Tok("js-core", None) >>,
      << Tok("alpha", Some("0.5")), Tok("hellinger", None) >>,
      << Tok("renyi", Some("0.5")), Tok("renyi", Some("0.9")) >> }

\* the Ks an estimator is given
KsChoices == { << 2 >>, << 1, 2 >> }

\* a bag collection, as far as the code looks at it: the smallest and the
\* largest number of points of its bags (n_pts.min() and n_pts.max()); the
\* collections tried have bags of one size, or a largest bag of MaxBag points
\* next to a smallest bag of 2 or of MaxBag - 1
Collections == { c \in [min : 2..MaxBag, max : 2..MaxBag] : c.max = c.min \/ (c.max = MaxBag /\ c.min \in {2, MaxBag - 1}) }

\* the plan attributes _setup_args stores: funcs_base_, metas_base_,
\* n_meta_only_ and save_all_Ks_
plan_attrs(R) == [funcs |-> R.funcs, metas |-> R.metas, metas_ordered |-> R.metas_ordered, n_meta_only |-> R.n_meta_only, save_all_Ks |-> save_all_Ks_of(R)]

\* the plans _setup_args can store for a div_funcs that parses
plans_of(d) == { plan_attrs(R) : R \in { Q \in parse_specs(d) : Q.err = "" } }

\* what one call did; kernel is what _estimate_cross_divs was handed, out the
\* shape of the tensor transform returned, Y the collection transform was
\* given, at_least the minimum K a "K is too small" error reports, before the
\* max_K_, indices_ and rhos_ that call found, shrank whether the call stored
\* a max_K_ below the one it found
CallRecord(op, error, chose, min_pt, built, computed, kernel, out) ==
    [op |-> op, error |-> error, chose |-> chose, min_pt |-> min_pt, indices_built |-> built, rhos_computed |-> computed, kernel |-> kernel, out |-> out, Y |-> None, at_least |-> None, before |-> None, shrank |-> FALSE]

\* the record of a call in which _choose_funcs stored mk as max_K_
Stored(rec, mk) == [rec EXCEPT !.shrank = mk < max_K_]

\* the record of a call that _get_jensen_shannon_core ended
KTooSmall(op, min_pt, X_ns, Y_ns) ==
    [CallRecord(op, "ValueError_K_too_small", FALSE, min_pt, 0, 0, None, None) EXCEPT !.Y = Y_ns, !.at_least = Some(js_at_least(X_ns, Y_ns)),
            !.before = Some([max_K_ |-> max_K_, indices_ |-> indices_, rhos_ |-> rhos_])]

\* the plan attributes of an estimator that has none
no_plan_attrs == plan_attrs(RaisedPlan(""))

\* a token the loop of _parse_specs rejects for its name or for the presence
\* of its alpha: an unknown name, no alpha for a function that needs one, an
\* alpha for a function that takes none
bad_token(t) ==
    \/ t.name \notin FuncNames
    \/ t.name \in FuncNames /\ needs_alpha(func_mapping(t.name)) /\ t.alpha = None
    \/ t.name \in FuncNames /\ ~needs_alpha(func_mapping(t.name)) /\ t.alpha # None

\* div_funcs that hold such a token, alone or after a good one
BadDivFuncs == { << t >> : t \in { u \in SpecTokens : bad_token(u) } } \cup { << Tok("kl", None), t >> : t \in { u \in SpecTokens : bad_token(u) } }

\* __init__: the parameters are stored and _setup_args parses div_funcs; when
\* _parse_specs raises, so does __init__, before funcs_base_, metas_base_,
\* n_meta_only_ and save_all_Ks_ are assigned, and no estimator is handed
\* out. No max_K_, features_, indices_ or rhos_ attribute exists yet (max_K_ =
\* 0 stands for the missing attribute, as getattr(self, 'max_K_', 0) reads it)
EstInit ==
    /\ div_funcs \in DivFuncChoices \cup BadDivFuncs
    /\ Ks \in KsChoices
    /\ do_sym \in BOOLEAN
    /\ \E R \in parse_specs(div_funcs) :
          IF R.err = ""
          THEN base = plan_attrs(R) /\ call = CallRecord("__init__", "", FALSE, 0, 0, 0, None, None)
          ELSE base = no_plan_attrs /\ call = CallRecord("__init__", "ValueError", FALSE, 0, 0, 0, None, None)
    /\ max_K_ = 0
    /\ features_ = None
    /\ indices_ = None
    /\ rhos_ = None

\* __init__ returned, so there is an estimator to call
constructed == ~(call.op = "__init__" /\ call.error # "")

\* the div_funcs an existing estimator is given later
SetChoices == { << Tok("kl", None), Tok("js", None) >>, << Tok("hellinger", None) >> }

\* div_funcs is set on the estimator (set_params, a pipeline)
SetDivFuncs ==
    /\ constructed
    /\ \E d \in SetChoices : d # div_funcs /\ div_funcs' = d
    /\ call' = CallRecord("set_params", "", FALSE, 0, 0, 0, None, None)
    /\ UNCHANGED << Ks, do_sym, base, max_K_, features_, indices_, rhos_ >>
    /\ UNCHANGED planVars
    /\ UNCHANGED flannVars
    /\ UNCHANGED metaVars
    /\ UNCHANGED rhoVars
    /\ UNCHANGED addVars

\* fit(X, skip_rhos): _setup_args (the plan exists, so nothing is parsed),
\* features_ = X, _choose_funcs(X), _check_Ks(X), _build_indices(X), _get_rhos
Fit ==
    /\ constructed
    /\ \E X \in Collections :
        \E mk \in { choose_max_K(base, Ks, max_K_, X, None) } :
           /\ features_' = Some(X)
           /\ IF set_up_raises(base, Ks, X, None)
              THEN /\ call' = KTooSmall("fit", X.min, X, None)
                   /\ UNCHANGED << max_K_, indices_, rhos_ >>
              ELSE IF check_Ks_raises(mk, X, None)
              THEN /\ max_K_' = mk
                   /\ call' = Stored(CallRecord("fit", "ValueError_bag_too_small", TRUE, X.min, 0, 0, None, None), mk)
                   /\ UNCHANGED << indices_, rhos_ >>
              ELSE \E skip_rhos \in BOOLEAN :
                   /\ max_K_' = mk
                   /\ indices_' = Some(X)
                   /\ rhos_' = IF skip_rhos THEN rhos_ ELSE Some(get_rhos(X, mk, base.save_all_Ks, Ks, div_funcs))
                   /\ call' = Stored(CallRecord("fit", "", TRUE, X.min, 1, IF skip_rhos THEN 0 ELSE 1, None, None), mk)
           /\ UNCHANGED << div_funcs, Ks, do_sym, base >>
           /\ UNCHANGED planVars
           /\ UNCHANGED flannVars
           /\ UNCHANGED metaVars
           /\ UNCHANGED rhoVars
           /\ UNCHANGED addVars

\* transform(Y), after a fit stored features_: _choose_funcs(X, Y),
\* _check_Ks(X, Y), the cached rhos_ dropped when max_K_ grew and computed when
\* missing, Y's indices and radii, _estimate_cross_divs, _finalize
Transform ==
    /\ features_ # None
    /\ \E Y \in Collections, X \in { features_[1] } :
      \E mk \in { choose_max_K(base, Ks, max_K_, X, Some(Y)) } :
        LET min_pt == Min2(X.min, Y.min)
            kept == IF rhos_ # None /\ mk > max_K_ THEN None ELSE rhos_
            X_rhos == IF kept = None THEN get_rhos(X, mk, base.save_all_Ks, Ks, div_funcs) ELSE kept[1]
            sym == sym_pass(base, do_sym)
            n_slots == Len(div_funcs) + base.n_meta_only
            fin == finalize(base, n_slots, Ks, do_sym, X_rhos, sym)
            computed == (IF kept = None THEN 1 ELSE 0) + (IF sym THEN 1 ELSE 0)
        IN IF max_K_ = 0
           THEN /\ call' = [CallRecord("transform", "AttributeError", FALSE, min_pt, 0, 0, None, None) EXCEPT !.Y = Some(Y)]
                /\ UNCHANGED << max_K_, rhos_ >>
           ELSE IF set_up_raises(base, Ks, X, Some(Y))
           THEN /\ call' = KTooSmall("transform", min_pt, X, Some(Y))
                /\ UNCHANGED << max_K_, rhos_ >>
           ELSE IF check_Ks_raises(mk, X, Some(Y))
           THEN /\ max_K_' = mk
                /\ call' = Stored([CallRecord("transform", "ValueError_bag_too_small", TRUE, min_pt, 0, 0, None, None) EXCEPT !.Y = Some(Y)], mk)
                /\ UNCHANGED rhos_
           ELSE IF kept = None /\ indices_ = None
           THEN /\ max_K_' = mk
                /\ rhos_' = None
                /\ call' = Stored([CallRecord("transform", "AttributeError", TRUE, min_pt, 0, 0, None, None) EXCEPT !.Y = Some(Y)], mk)
           ELSE /\ max_K_' = mk
                /\ rhos_' = Some(X_rhos)
                /\ call' = Stored([CallRecord("transform", fin.err, TRUE, min_pt, 1, computed,
                                       Some([Y |-> Y, X_rhos |-> X_rhos, Y_rhos |-> sym, max_K |-> mk, n_slots |-> n_slots, do_sym |-> sym]),
                                       IF fin.err = "" THEN Some([n_funcs |-> fin.n_funcs, direction_axis |-> fin.direction_axis, slots |-> fin.slots]) ELSE None)
                             EXCEPT !.Y = Some(Y)], mk)
    /\ UNCHANGED << div_funcs, Ks, do_sym, base, features_, indices_ >>
    /\ UNCHANGED planVars
    /\ UNCHANGED flannVars
    /\ UNCHANGED metaVars
    /\ UNCHANGED rhoVars
    /\ UNCHANGED addVars

\* the planner's variables while the estimator runs, and the estimator's while
\* the planner runs
PlanIdle == entry = "" /\ specs = << >> /\ parse = EmptyParse /\ sort_input = << >> /\ topo = TopoStart(<< >>) /\ pc = "" /\ plan = NoPlan

EstIdle == div_funcs = << >> /\ Ks = << >> /\ do_sym = FALSE /\ base = no_plan_attrs /\ max_K_ = 0 /\ features_ = None /\ indices_ = None /\ rhos_ = None /\ call = CallRecord("", "", FALSE, 0, 0, 0, None, None)

FlannIdle == flann_algorithm = "auto" /\ flann_args = None /\ flann_index = None

MetaIdle == meta_call = None

RhoIdle == rho_call = None

AddIdle == reg = << >> /\ pending = << >> /\ frames = << >> /\ entries = << >> /\ edges = << >> /\ phase = ""

Init == EstInit /\ PlanIdle /\ FlannIdle /\ MetaIdle /\ RhoIdle /\ AddIdle

Next == SetDivFuncs \/ Fit \/ Transform

Spec == Init /\ [][Next]_vars

PlanStart == PlanInit /\ EstIdle /\ FlannIdle /\ MetaIdle /\ RhoIdle /\ AddIdle

PlanSpec == PlanStart /\ [][PlanNext]_vars

\* ------------------------------------------------------ the FLANN indices

\* the largest dimension of a collection
MaxDim == 7

\* "X.dim > 5"
DimThreshold == 5

FlannAlgorithms == { "auto", "linear", "kdtree_single", "kmeans" }

\* flann_args: None, or a dict with or without an 'algorithm' entry
FlannArgsChoices ==
    { None,
      ("trees" :> "4"),
      ("algorithm" :> "kdtree"),
      ("algorithm" :> "linear") @@ ("trees" :> "4") }

\* _flann_args(X): X is None, or Some(the dimension of the collection)
get_flann_args(algorithm, args, X) ==
    LET a0 == ("cores" :> "n_jobs")
        a1 == IF algorithm = "auto"
              THEN IF X = None \/ X[1] > DimThreshold
                   THEN Put(a0, "algorithm", "linear")
                   ELSE Put(a0, "algorithm", "kdtree_single")
              ELSE Put(a0, "algorithm", algorithm)
    IN IF args # None THEN args @@ a1 ELSE a1

\* _build_indices(X) on a collection of dimension dim: the algorithm every
\* bag's FLANNIndex is made with
build_indices(algorithm, args, dim) == get_flann_args(algorithm, args, None)["algorithm"]

FlannInit ==
    /\ flann_algorithm \in FlannAlgorithms
    /\ flann_args \in FlannArgsChoices
    /\ flann_index = None

BuildIndices ==
    /\ \E dim \in 1..MaxDim :
          flann_index' = Some([dim |-> dim, algorithm |-> build_indices(flann_algorithm, flann_args, dim)])
    /\ UNCHANGED << flann_algorithm, flann_args >>
    /\ UNCHANGED planVars
    /\ UNCHANGED estVars
    /\ UNCHANGED metaVars
    /\ UNCHANGED rhoVars
    /\ UNCHANGED addVars

FlannNext == BuildIndices

FlannStart == FlannInit /\ PlanIdle /\ EstIdle /\ MetaIdle /\ RhoIdle /\ AddIdle

FlannSpec == FlannStart /\ [][FlannNext]_vars

\* ------------------------------------------- the clamped meta-functions

\* values are fixed-point numbers in thousandths: 1.0
One == 1000

\* np.log(2), rounded down to thousandths
Ln2 == 693

\* the largest magnitude of a dependency result, in fifths
MaxVal == 10

\* the values a dependency result or a radius term takes: multiples of 0.2
Values == { 200 * k : k \in -MaxVal..MaxVal }

\* the largest r of lo..hi with r * r <= n
RECURSIVE sqrt_between(_, _, _)
sqrt_between(n, lo, hi) ==
    IF lo = hi THEN lo
    ELSE LET mid == (lo + hi + 1) \div 2
         IN IF mid * mid <= n THEN sqrt_between(n, mid, hi) ELSE sqrt_between(n, lo, mid - 1)

\* np.sqrt of a value that is not negative, rounded down to thousandths
sqrt(x) == sqrt_between(x * One, 0, x + One)

\* bhattacharyya(Ks, dim, required, clamp): "est = np.minimum(est, 1)"
bhattacharyya(est, clamp) == IF clamp THEN Min2(est, One) ELSE est

\* hellinger(Ks, dim, required, clamp): est = 1 - bc, and under clamp
\* np.maximum(est, 0) and np.sqrt(est)
hellinger(bc, clamp) ==
    LET est == One - bc
    IN IF clamp THEN sqrt(Max2(est, 0)) ELSE est

\* jensen_shannon(Ks, dim, X_rhos, Y_rhos, required, clamp) on one entry:
\* cores is the sum of the two directions of the core, X_bits and Y_bits the
\* radius terms, log_term is log(n + m - 1) + psi(K)
jensen_shannon(cores, X_bits, Y_bits, log_term, clamp) ==
    LET est == (cores - X_bits - Y_bits) \div 2 + log_term
    IN IF clamp THEN Min2(Ln2, Max2(0, est)) ELSE est

\* the radius terms and the log term tried
BitValues == { 0, 400 }

MetaInit == meta_call = None

\* one meta-function is evaluated on one entry of its dependency's result
EvalMeta ==
    /\ \E required \in Values, clamp \in BOOLEAN :
          \/ meta_call' = Some([func |-> "bhattacharyya", required |-> required, clamp |-> clamp, bits |-> << >>,
                                out |-> bhattacharyya(required, clamp)])
          \/ meta_call' = Some([func |-> "hellinger", required |-> required, clamp |-> clamp, bits |-> << >>,
                                out |-> hellinger(required, clamp)])
          \/ \E xb \in BitValues, yb \in BitValues, lt \in BitValues :
                meta_call' = Some([func |-> "jensen_shannon", required |-> required, clamp |-> clamp, bits |-> << xb, yb, lt >>,
                                   out |-> jensen_shannon(required, xb, yb, lt, clamp)])
    /\ UNCHANGED planVars
    /\ UNCHANGED estVars
    /\ UNCHANGED flannVars
    /\ UNCHANGED rhoVars
    /\ UNCHANGED addVars

MetaNext == EvalMeta

MetaStart == MetaInit /\ PlanIdle /\ EstIdle /\ FlannIdle /\ RhoIdle /\ AddIdle

MetaSpec == MetaStart /\ [][MetaNext]_vars

\* ------------------------------------------------- the radii of a point

\* the largest max_K_
MaxRank == 3

\* squared distances an index returns, in thousandths
DistValues == { 0, 250, 4000 }

\* min_dist, in thousandths: the default 1e-3, and 0.6
MinDists == { 1, 600 }

\* one point's call: max_K_, the row idx.nn_index(bag, max_K_ + 1)[1] has for
\* it (the self-match first), Ks, save_all_Ks_ and min_dist
RhoInputs ==
    UNION { [max_K : {m}, dists : [1..(m + 1) -> DistValues], Ks : UNION { [1..n -> 1..m] : n \in 1..2 },
             save_all : BOOLEAN, min_dist : MinDists] : m \in 1..MaxRank }

\* row[:, cols] of numpy on one row: cols are 0-based, a negative column
\* counts from the end, a column outside the row is an IndexError
take_columns(row, cols) ==
    IF \E j \in 1..Len(cols) : cols[j] >= Len(row) \/ cols[j] < -Len(row)
    THEN [err |-> "IndexError", row |-> << >>]
    ELSE [err |-> "", row |-> [j \in 1..Len(cols) |-> row[(IF cols[j] < 0 THEN cols[j] + Len(row) ELSE cols[j]) + 1]]]

\* "slice(1, None) if self.save_all_Ks_ else self.Ks", on a row of n columns
which_Ks(n, Ks_arr, save_all) == IF save_all THEN [j \in 1..(n - 1) |-> j] ELSE Ks_arr

\* _get_rhos on one point without np.maximum(min_dist, r, out=r)
get_rhos_row_unclamped(dists, Ks_arr, save_all, min_dist) ==
    LET t == take_columns(dists, which_Ks(Len(dists), Ks_arr, save_all))
    IN [err |-> t.err, row |-> [j \in 1..Len(t.row) |-> sqrt(t.row[j])]]

\* _get_rhos on one point: r = np.sqrt(...[:, which_Ks]) and
\* np.maximum(min_dist, r, out=r)
get_rhos_row(dists, Ks_arr, save_all, min_dist) ==
    LET t == take_columns(dists, which_Ks(Len(dists), Ks_arr, save_all))
    IN [err |-> t.err, row |-> [j \in 1..Len(t.row) |-> Max2(min_dist, sqrt(t.row[j]))]]

\* the selection of _finalize with self.Ks for self.Ks - 1
select_Ks_row_at_Ks(rho, Ks_arr, save_all) ==
    IF save_all THEN take_columns(rho, Ks_arr) ELSE [err |-> "", row |-> rho]

\* "if self.save_all_Ks_: X_rhos = [rho[:, self.Ks - 1] for rho in X_rhos]"
select_Ks_row(rho, Ks_arr, save_all) ==
    IF save_all THEN take_columns(rho, [j \in 1..Len(Ks_arr) |-> Ks_arr[j] - 1]) ELSE [err |-> "", row |-> rho]

RhoInit == \E inp \in RhoInputs : rho_call = Some([inp |-> inp, stage |-> "queried", err |-> "", rhos |-> << >>, handed |-> << >>])

\* _get_rhos computes the point's radii
GetRhos ==
    /\ rho_call # None /\ rho_call[1].stage = "queried"
    /\ LET c == rho_call[1]
           r == get_rhos_row(c.inp.dists, c.inp.Ks, c.inp.save_all, c.inp.min_dist)
       IN rho_call' = Some([c EXCEPT !.stage = IF r.err = "" THEN "cached" ELSE "raised", !.err = r.err, !.rhos = r.row])
    /\ UNCHANGED planVars
    /\ UNCHANGED estVars
    /\ UNCHANGED flannVars
    /\ UNCHANGED metaVars
    /\ UNCHANGED addVars

\* _finalize selects the columns the meta-functions get
SelectKs ==
    /\ rho_call # None /\ rho_call[1].stage = "cached"
    /\ LET c == rho_call[1]
           r == select_Ks_row(c.rhos, c.inp.Ks, c.inp.save_all)
       IN rho_call' = Some([c EXCEPT !.stage = IF r.err = "" THEN "handed" ELSE "raised", !.err = r.err, !.handed = r.row])
    /\ UNCHANGED planVars
    /\ UNCHANGED estVars
    /\ UNCHANGED flannVars
    /\ UNCHANGED metaVars
    /\ UNCHANGED addVars

RhoNext == GetRhos \/ SelectKs

RhoStart == RhoInit /\ PlanIdle /\ EstIdle /\ FlannIdle /\ MetaIdle /\ AddIdle

RhoSpec == RhoStart /\ [][RhoNext]_vars

\* ------------------------------------------------------ reading a plan

\* the slots of one dict of infos
slots_of(d) == UNION { { d[f].pos[i][1] : i \in 1..Len(d[f].pos) } : f \in DOMAIN d }

\* the occurrences (function, index into its pos list) of a plan
occurrences(P) == UNION ({ { << f, i >> : i \in 1..Len(P.funcs[f].pos) } : f \in DOMAIN P.funcs } \cup { { << f, i >> : i \in 1..Len(P.metas[f].pos) } : f \in DOMAIN P.metas })

info_of(P, f) == IF is_meta(f) THEN P.metas[f] ELSE P.funcs[f]

\* the loop of _finalize over the metas in their order, from the k-th on:
\* every slot in deps was written before the meta that reads it runs;
\* written holds the slots written so far
RECURSIVE reads_written(_, _, _)
reads_written(P, k, written) ==
    IF k > Len(P.metas_ordered) THEN TRUE
    ELSE LET info == P.metas[P.metas_ordered[k]]
         IN /\ Range(info.deps) \subseteq written
            /\ reads_written(P, k + 1, written \cup { info.pos[i][1] : i \in 1..Len(info.pos) })

\* the keys of g left over when keys without a parent among the keys left are
\* taken away again and again
RECURSIVE Unsorted(_, _)
Unsorted(g, C) ==
    LET free == { n \in C : g[n] \cap C = {} }
    IN IF free = {} THEN C ELSE Unsorted(g, C \ free)

\* a dict child => parents without a cycle: taking away keys without a parent
\* left leaves nothing
Acyclic(g) == Unsorted(g, DOMAIN g) = {}

\* order lists every key of g once, each after all its parents
SortedBy(g, order) ==
    /\ Range(order) = DOMAIN g
    /\ Len(order) = Cardinality(DOMAIN g)
    /\ \A i \in 1..Len(order) : \A q \in g[order[i]] : \E j \in 1..(i - 1) : order[j] = q

\* the spec token i (from 1) names this function and this alpha
func_at(i) == func_mapping(specs[i].name)

alpha_at(i) == IF specs[i].alpha = None THEN None ELSE float(specs[i].alpha[1])

\* ------------------------------------------------------------------ claims

\* C1: for an acyclic dependency graph the sort returns every key once, each
\* after all it depends on; the ordered meta map of a returned parse holds
\* every registered meta-function exactly once, each after the metas it
\* requires, and evaluating the metas in that order (after the base slots
\* are filled) reads only slots that were written before.
C1_MetasAfterDeps ==
    /\ (entry = "topological_sort" /\ pc = "sorted" /\ Acyclic(sort_input)) => SortedBy(sort_input, topo.order)
    /\ (entry = "_parse_specs" /\ pc = "returned" /\ Acyclic(parse.meta_deps)) =>
         /\ Range(plan.metas_ordered) = DOMAIN plan.metas
         /\ Len(plan.metas_ordered) = Cardinality(DOMAIN plan.metas)
         /\ \A i \in 1..Len(plan.metas_ordered) : \A q \in parse.meta_deps[plan.metas_ordered[i]] : is_meta(q) => \E j \in 1..(i - 1) : plan.metas_ordered[j] = q
         /\ reads_written(plan, 1, slots_of(plan.funcs))

C1_Witness == entry = "_parse_specs" /\ pc = "returned" /\ Len(plan.metas_ordered) >= 2 /\ plan.n_meta_only >= 2

\* C2: topological_sort never returns an order for a dict with a cycle (it
\* raises instead).
C2_CycleRaises == (entry = "topological_sort" /\ pc = "sorted") => Acyclic(sort_input)

\* C3: in a returned plan the spec token at index i holds output slot i: the
\* node of its function has pos = i at the entry of its alpha.
C3_TokenSlot ==
    pc = "returned" =>
        \A i \in 1..Len(specs) :
            LET info == info_of(plan, func_at(i))
            IN IF needs_alpha(func_at(i))
               THEN IndexOf(info.alphas, alpha_at(i)) # 0 /\ info.pos[IndexOf(info.alphas, alpha_at(i))] = Some(i - 1)
               ELSE info.pos = << Some(i - 1) >>

C3_Witness ==
    /\ pc = "returned"
    /\ \E i, j \in 1..Len(specs) : i + 1 < j /\ func_at(i) = func_at(j) /\ alpha_at(i) # alpha_at(j) /\ is_meta(func_at(i + 1))

\* C4: a spec list that directly requests one function twice with the same
\* parameter is never accepted: the parse raises at the second request, so
\* while it has not raised no two of the tokens read so far name the same
\* function with the same parameter.
C4_DuplicateRejected ==
    pc # "raised" =>
        \A i \in 1..Len(specs) : \A j \in (i + 1)..Len(specs) :
            (specs[i].name \in FuncNames /\ specs[j].name \in FuncNames) => (func_at(i) # func_at(j) \/ alpha_at(i) # alpha_at(j))

C4_Witness ==
    /\ pc = "raised"
    /\ parse.err = "duplicate"
    /\ Len(specs) = 3
    /\ specs[1].name = "js"
    /\ specs[3].name = "jensen-shannon"

\* C5: the cached radii of the fitted collection that transform hands to the
\* cross-divergence evaluation were computed at a depth equal to the max_K_
\* handed over with them.
C5_RadiiDepth == (call.op = "transform" /\ call.kernel # None /\ call.kernel[1].X_rhos.of = features_[1]) => call.kernel[1].X_rhos.depth = call.kernel[1].max_K

\* C6: the raw tensor has len(div_funcs) + n_meta_only_ function slots and the
\* tensor transform returns has exactly len(div_funcs) of them.
C6_FunctionAxis ==
    call.op = "transform" =>
        /\ call.kernel # None => call.kernel[1].n_slots = Len(div_funcs) + base.n_meta_only
        /\ call.out # None => call.out[1].n_funcs = Len(div_funcs)

C6_Witness == call.op = "transform" /\ call.out # None /\ base.n_meta_only >= 1

C8_PlanCurrent == call.op = "fit" => base \in plans_of(div_funcs)

\* C9: when a Jensen-Shannon spec was added after the radii were cached and
\* every bag has more points than the depth it needs, the radii transform
\* hands to the evaluation reach that depth (they were recomputed).
C9_JSRecomputes ==
    (call.op = "transform" /\ call.kernel # None /\ has_js(div_funcs) /\ ~call.kernel[1].X_rhos.js
        /\ js_k_needed(Ks, features_[1], Some(call.kernel[1].Y)) < call.min_pt) =>
        call.kernel[1].X_rhos.depth >= js_k_needed(Ks, features_[1], Some(call.kernel[1].Y))

\* C10: in a returned plan for n tokens no slot is null, the visible slots are
\* exactly 0..n-1, the hidden slots are exactly -1..-k for the returned
\* hidden-slot count k, and no two occurrences share a slot.
C10_Slots ==
    pc = "returned" =>
        /\ \A o \in occurrences(plan) : info_of(plan, o[1]).pos[o[2]] # None
        /\ slots_of(plan.funcs) \cup slots_of(plan.metas) = (0..(Len(specs) - 1)) \cup ((0 - plan.n_meta_only)..(-1))
        /\ Cardinality(slots_of(plan.funcs) \cup slots_of(plan.metas)) = Cardinality(occurrences(plan))

C10_Witness == pc = "returned" /\ plan.n_meta_only >= 2 /\ Len(specs) >= 2

\* the alphas of a meta as the requirements see them: its alpha list, or the
\* one missing alpha of a meta that takes none
meta_alphas(info) == IF info.alphas = None THEN << None >> ELSE info.alphas

\* token i directly requests what the (one) requirement of meta f asks for at
\* the meta's j-th alpha
requested_dep(f, j, i) ==
    LET req == needs_results(f)[1]
    IN func_at(i) = req.func /\ alpha_at(i) = req_alpha_of(req, meta_alphas(plan.metas[f])[j])

\* C11: in a returned plan a function that is both required by a meta and
\* directly requested, in either order, has one entry per alpha, holds the
\* index of the requesting token, is not counted among the hidden slots (they
\* are the occurrences no token requested) and is what the meta's deps name.
C11_SlotReuse ==
    pc = "returned" =>
        /\ \A f \in DOMAIN plan.funcs \cup DOMAIN plan.metas :
              LET info == info_of(plan, f)
              IN \A a, b \in 1..Len(info.alphas) : info.alphas[a] = info.alphas[b] => a = b
        /\ plan.n_meta_only = Cardinality(occurrences(plan)) - Len(specs)
        /\ \A f \in DOMAIN plan.metas : \A j \in 1..Len(meta_alphas(plan.metas[f])) : \A i \in 1..Len(specs) :
              requested_dep(f, j, i) => (Len(plan.metas[f].deps) >= j /\ plan.metas[f].deps[j] = i - 1)

\* a base function required by an earlier meta, then requested, then required
\* by a later meta
C11_Witness ==
    /\ pc = "returned"
    /\ Len(specs) = 3
    /\ is_meta(func_at(1)) /\ is_meta(func_at(3)) /\ needs_alpha(func_at(2))
    /\ requested_dep(func_at(1), 1, 2)
    /\ requested_dep(func_at(3), 1, 2)
    /\ plan.n_meta_only = 0

\* the (one) requirement of meta f is registered in the parse state S for the
\* meta's j-th alpha: the required function has an entry, with the required
\* alpha in its alpha list when it takes one
req_registered(S, f, j) ==
    LET req == needs_results(f)[1]
        d == IF is_meta(req.func) THEN S.metas ELSE S.funcs
    IN /\ req.func \in DOMAIN d
       /\ IF needs_alpha(req.func)
          THEN IndexOf(d[req.func].alphas, req_alpha_of(req, meta_alphas(S.metas[f])[j])) # 0
          ELSE Len(d[req.func].pos) = 1

\* the slot of what the requirement of meta f asks for at the meta's j-th alpha
req_slot_at(S, f, j) ==
    LET req == needs_results(f)[1]
        d == IF is_meta(req.func) THEN S.metas ELSE S.funcs
    IN IF needs_alpha(req.func)
       THEN d[req.func].pos[IndexOf(d[req.func].alphas, req_alpha_of(req, meta_alphas(S.metas[f])[j]))]
       ELSE d[req.func].pos[1]

\* C12: after every registered token each meta's requirement is registered
\* for each of the meta's alphas, so the second pass never fails to find an
\* alpha, and in a returned plan the deps of a meta are the slots of the
\* required function at those alphas, in the order of the meta's alpha list.
C12_DepsLocated ==
    entry = "_parse_specs" =>
        /\ parse.err # "alpha_not_found"
        /\ parse.err = "" => \A f \in DOMAIN parse.metas : \A j \in 1..Len(meta_alphas(parse.metas[f])) : req_registered(parse, f, j)
        /\ pc = "returned" =>
              \A f \in DOMAIN plan.metas :
                  /\ Len(plan.metas[f].deps) = Len(meta_alphas(plan.metas[f]))
                  /\ \A j \in 1..Len(meta_alphas(plan.metas[f])) : Some(plan.metas[f].deps[j]) = req_slot_at(plan, f, j)

\* a meta with two alphas whose first dependency is hidden and whose second
\* was requested before the meta
C12_Witness ==
    /\ pc = "returned"
    /\ \E f \in DOMAIN plan.metas : Len(plan.metas[f].deps) = 2 /\ plan.metas[f].deps[1] < 0 /\ plan.metas[f].deps[2] = 0

C14_BadTokenRaises ==
    (call.op = "__init__" /\ \E i \in 1..Len(div_funcs) : bad_token(div_funcs[i])) =>
        /\ call.error = "ValueError"
        /\ base = no_plan_attrs
        /\ indices_ = None /\ rhos_ = None
        /\ call.indices_built = 0 /\ call.rhos_computed = 0

C14_Witness ==
    /\ call.op = "__init__"
    /\ call.error = "ValueError"
    /\ Len(div_funcs) = 2
    /\ div_funcs[2] = Tok("kl", Some("0.5"))
    /\ base = no_plan_attrs

\* C15: after a fit that raised, the indices and the radii the estimator
\* holds are those of the collection features_ names.
C15_FitConsistent ==
    (call.op = "fit" /\ call.error # "") =>
        /\ indices_ # None => indices_ = features_
        /\ rhos_ # None => rhos_[1].of = features_[1]

\* a meta of the plan in use declares a requirement with needs_transpose
transpose_required(P) == \E f \in DOMAIN P.metas : \E k \in 1..Len(needs_results(f)) : needs_results(f)[k].needs_transpose

\* C16: a transform that reaches the kernel computes the radii of Y and asks
\* the kernel for the backward direction exactly when do_sym is configured or
\* a scheduled meta requirement has needs_transpose.
C16_SymmetricPass ==
    (call.op = "transform" /\ call.kernel # None) =>
        /\ call.kernel[1].Y_rhos <=> (do_sym \/ transpose_required(base))
        /\ call.kernel[1].do_sym <=> (do_sym \/ transpose_required(base))

\* the pass is implied by a meta only
C16_Witness == call.op = "transform" /\ call.kernel # None /\ ~do_sym /\ call.kernel[1].Y_rhos /\ call.kernel[1].do_sym

\* C17: the tensor transform returns keeps the trailing [forward, backward]
\* axis exactly when do_sym is configured; a symmetric pass that only a meta
\* requirement implied is collapsed to the forward layer.
C17_DirectionAxis ==
    (call.op = "transform" /\ call.out # None) =>
        /\ call.out[1].direction_axis <=> do_sym
        /\ (~do_sym /\ call.kernel[1].do_sym) => ~call.out[1].direction_axis

\* a pass implied by a meta, returned without the direction axis
C17_Witness ==
    /\ call.op = "transform" /\ call.out # None /\ call.error = ""
    /\ ~do_sym /\ call.kernel[1].do_sym /\ ~call.out[1].direction_axis

\* flann_args carries an 'algorithm' entry
has_algorithm_entry == flann_args # None /\ "algorithm" \in DOMAIN flann_args

\* C18: with flann_algorithm 'auto' the indices are built with linear scan
\* above the dimension threshold and with kdtree_single at or below it; an
\* explicit flann_algorithm, or an 'algorithm' entry of flann_args, overrides.
C18_AutoByDimension ==
    flann_index # None =>
        flann_index[1].algorithm =
            IF has_algorithm_entry THEN flann_args["algorithm"]
            ELSE IF flann_algorithm # "auto" THEN flann_algorithm
            ELSE IF flann_index[1].dim > DimThreshold THEN "linear" ELSE "kdtree_single"

\* the last call got as far as specializing the functions
js_ran == call.op \in {"fit", "transform"} /\ (call.chose \/ call.error = "ValueError_K_too_small")

\* some point weight (2n - 1) / (n + m - 1) or (2n - 1) m / ((n + m - 1) n),
\* over the extreme bag-size pairs in both orders, times K is below 1
weight_below_one(K, X_ns, Yn) ==
    \E a \in {X_ns.min, X_ns.max}, b \in {Yn.min, Yn.max} :
        \E q \in { << a, b >>, << b, a >> } :
            \/ (2 * q[1] - 1) * K < q[1] + q[2] - 1
            \/ (2 * q[1] - 1) * q[2] * K < (q[1] + q[2] - 1) * q[1]

\* C19: specializing the Jensen-Shannon core raises its ValueError exactly
\* when the minimum point weight over the extreme bag-size pairs times min(Ks)
\* is below 1; the minimum K the error reports is the smallest K for which
\* the same bag sizes specialize; and the call that raised has left max_K_,
\* the indices and the cached radii as it found them.
C19_JSMinimumK ==
    js_ran =>
        LET X == features_[1]
            Yn == IF call.Y = None THEN X ELSE call.Y[1]
        IN /\ call.error = "ValueError_K_too_small" <=>
                  ("jensen_shannon_core" \in DOMAIN base.funcs /\ weight_below_one(SetMin(Range(Ks)), X, Yn))
           /\ call.error = "ValueError_K_too_small" =>
                  /\ call.at_least # None
                  /\ \A K \in 1..(call.at_least[1] + 1) : weight_below_one(K, X, Yn) <=> K < call.at_least[1]
                  /\ call.before = Some([max_K_ |-> max_K_, indices_ |-> indices_, rhos_ |-> rhos_])

\* a transform on cached radii that the core ends, asking for a larger K
C19_Witness ==
    /\ call.op = "transform" /\ call.error = "ValueError_K_too_small"
    /\ rhos_ # None /\ max_K_ > 0
    /\ call.at_least # None /\ call.at_least[1] > SetMin(Range(Ks))

\* C20: with clamp on, hellinger and bhattacharyya return values in [0, 1]
\* and jensen_shannon returns values in [0, ln 2], whatever the dependency
\* result they are handed.
C20_ClampedRange ==
    (meta_call # None /\ meta_call[1].clamp) =>
        /\ 0 <= meta_call[1].out
        /\ meta_call[1].out <= (IF meta_call[1].func = "jensen_shannon" THEN Ln2 ELSE One)

\* the rank of the neighbour column j of the cached radii stands for
rank_of(c, j) == IF c.inp.save_all THEN j ELSE c.inp.Ks[j]

\* the index returned distances that do not decrease with the rank
dists_sorted(c) == \A i \in 1..Len(c.inp.dists) : \A j \in i..Len(c.inp.dists) : c.inp.dists[i] <= c.inp.dists[j]

\* C21: every radius _get_rhos returns is at least min_dist; and when the
\* index returns distances that do not decrease with the neighbour rank, the
\* radii, after the self-match is dropped and the floor applied, do not
\* decrease with k.
C21_RadiiFloorMonotone ==
    (rho_call # None /\ rho_call[1].stage \in {"cached", "handed"}) =>
        LET c == rho_call[1]
        IN /\ \A j \in 1..Len(c.rhos) : c.rhos[j] >= c.inp.min_dist
           /\ dists_sorted(c) =>
                 \A i \in 1..Len(c.rhos) : \A j \in 1..Len(c.rhos) :
                     rank_of(c, i) <= rank_of(c, j) => c.rhos[i] <= c.rhos[j]

\* sorted distances with a self-match of 0, under the floor, and a radius
\* above it
C21_Witness ==
    /\ rho_call # None /\ rho_call[1].stage = "cached"
    /\ dists_sorted(rho_call[1]) /\ rho_call[1].inp.dists[2] = 0
    /\ Len(rho_call[1].rhos) >= 2
    /\ rho_call[1].rhos[1] = rho_call[1].inp.min_dist
    /\ \E j \in 1..Len(rho_call[1].rhos) : rho_call[1].rhos[j] > rho_call[1].inp.min_dist

\* C22: when the last fit succeeded (the indices are those of features_), the
\* radii transform hands to the kernel were computed from the bags of
\* features_.
C22_RhosOfFitted ==
    (call.op = "transform" /\ call.kernel # None /\ indices_ = features_) =>
        call.kernel[1].X_rhos.of = features_[1]

\* _finalize reads Y_rhos: save_all_Ks_ is set, or a meta has needs_rhos[1]
reads_Y_rhos(P) == P.save_all_Ks \/ \E f \in DOMAIN P.metas : needs_rhos(f)[2]

\* C23: in every transform that reaches _finalize with a plan that makes it
\* read Y_rhos, transform has computed Y's radii.
C23_YRhosComputed ==
    (call.op = "transform" /\ call.kernel # None /\ reads_Y_rhos(base)) => call.kernel[1].Y_rhos

\* every slot of a base function of the plan holds what the kernel wrote, and
\* every slot of a meta what that meta wrote
slots_kept(P, slots, n_slots) ==
    /\ \A f \in DOMAIN P.funcs : \A k \in 1..Len(P.funcs[f].pos) : slots[slot_index(P.funcs[f].pos[k][1], n_slots)] = "kernel"
    /\ \A f \in DOMAIN P.metas : \A k \in 1..Len(P.metas[f].pos) : slots[slot_index(P.metas[f].pos[k][1], n_slots)] = f

\* C24: with a plan parsed from the div_funcs in use, when transform returns
\* every slot of a base function still holds the kernel's value and every
\* slot of a meta holds that meta's result: the metas wrote their own slots
\* only, also when a requested base function is one of their dependencies.
C24_MetaFrame ==
    (call.op = "transform" /\ call.out # None /\ base \in plans_of(div_funcs)) =>
        slots_kept(base, call.out[1].slots, call.kernel[1].n_slots)

\* 'alpha:0.5' requested next to 'hellinger', which reads its slot
C24_Witness ==
    /\ call.op = "transform" /\ call.out # None /\ base \in plans_of(div_funcs)
    /\ "hellinger" \in DOMAIN base.metas /\ base.metas["hellinger"].deps = << 0 >>
    /\ "alpha_div" \in DOMAIN base.funcs /\ base.funcs["alpha_div"].pos = << Some(0) >>
    /\ call.out[1].slots[0] = "kernel" /\ call.out[1].slots[1] = "hellinger"

\* C25: column j of the radii handed to the meta-functions is the floored
\* distance to the Ks[j]-th neighbour that is not the point itself, whether
\* _get_rhos selected the columns Ks or kept every rank for _finalize to
\* select the columns Ks - 1; neither path indexes outside its array.
C25_SameRanks ==
    rho_call # None =>
        LET c == rho_call[1]
        IN /\ c.stage # "raised"
           /\ c.stage = "handed" =>
                 /\ Len(c.handed) = Len(c.inp.Ks)
                 /\ \A j \in 1..Len(c.inp.Ks) : c.handed[j] = Max2(c.inp.min_dist, sqrt(c.inp.dists[c.inp.Ks[j] + 1]))

\* every rank kept, then the columns of Ks = (3, 1) selected
C25_Witness ==
    /\ rho_call # None /\ rho_call[1].stage = "handed"
    /\ rho_call[1].inp.save_all /\ rho_call[1].inp.Ks = << 3, 1 >>
    /\ Len(rho_call[1].rhos) = 3
    /\ rho_call[1].handed = << rho_call[1].rhos[3], rho_call[1].rhos[1] >>
    /\ rho_call[1].rhos[3] > rho_call[1].rhos[1]

\* C26: no call stores a max_K_ below the one it found, so max_K_ never
\* decreases; and after every call in which _choose_funcs completes it is at
\* least max(Ks) and at least the k_needed of the Jensen-Shannon core
\* specialized on that call's bags.
C26_MaxKGrows ==
    /\ ~call.shrank
    /\ (call.op \in {"fit", "transform"} /\ call.chose) =>
          /\ max_K_ >= SetMax(Range(Ks))
          /\ "jensen_shannon_core" \in DOMAIN base.funcs => max_K_ >= js_k_needed(Ks, features_[1], call.Y)

\* a fit whose own bags would need less, refused because of the max_K_ that
\* earlier data left
C26_Witness ==
    /\ call.op = "fit" /\ call.chose /\ call.error = "ValueError_bag_too_small"
    /\ "jensen_shannon_core" \in DOMAIN base.funcs
    /\ call.min_pt > SetMax(Range(Ks))
    /\ call.min_pt > js_k_needed(Ks, features_[1], None)
    /\ call.min_pt <= max_K_

\* ---------------------------------------------- add_func, one call at a time

MaxCalls == 2

MaxDepth == 10

MetaNodes == { "p", "q" }

RegNodes == MetaNodes \cup { "b" }

AlphaRules == { "same", "swap", "fixed" }

\* req.alpha: a callable of the caller's alpha, or a value
req_alpha_by(rule, alpha) ==
    CASE rule = "same" -> alpha
      [] rule = "swap" -> IF alpha = Some("a1") THEN Some("a2") ELSE Some("a1")
      [] OTHER -> Some("a1")

Reqs == [func : RegNodes, rule : AlphaRules]

\* the registries: b is a base function of an alpha; p is a meta-function,
\* of an alpha or not, that requires one or two functions; q is a
\* meta-function of an alpha that requires p or b. Nothing keeps p from
\* requiring itself, or p and q from requiring each other
Registries ==
    { [needs_alpha |-> [f \in RegNodes |-> IF f = "p" THEN pa ELSE TRUE],
       needs_results |-> [f \in RegNodes |-> IF f = "p" THEN pr ELSE IF f = "q" THEN << qr >> ELSE << >>]] :
        pa \in BOOLEAN,
        pr \in UNION { [1..n -> Reqs] : n \in 1..2 },
        qr \in { r \in Reqs : r.func # "q" } }

\* the specs that pass the checks of the loop: an alpha exactly when the
\* function takes one
spec_calls(R) ==
    { c \in [func : RegNodes, alpha : { None, Some("a1") }] : R.needs_alpha[c.func] <=> c.alpha # None }

has_needs_results(f) == f \in MetaNodes

Frame(f, alpha, pos) == [func |-> f, alpha |-> alpha, pos |-> pos, k |-> 1, mode |-> "enter"]

index_of(s, v) == CHOOSE i \in 1..Len(s) : s[i] = v /\ \A j \in 1..(i - 1) : s[j] # v

recurses_always(meta, known, takes_alpha, seen_alpha) == meta

\* whether add_func goes through func.needs_results: on a new entry, or on
\* a new alpha of an entry it has
recurses(meta, known, takes_alpha, seen_alpha) ==
    meta /\ (~known \/ (takes_alpha /\ ~seen_alpha))

\* the body of add_func up to its loop over the requirements: the entries
\* after it, whether it raised, and the loop it goes into ("new" adds to
\* meta_deps, "append" does not)
enter(E, R, fr) ==
    LET f == fr.func
        na == R.needs_alpha[f]
        known == f \in DOMAIN E
        seen == known /\ na /\ fr.alpha \in Range(E[f].alphas)
        loop == recurses(has_needs_results(f), known, na, seen)
    IN  IF ~known
        THEN [entries |-> Put(E, f, [alphas |-> IF na THEN << fr.alpha >> ELSE << >>, pos |-> << fr.pos >>]),
              err |-> FALSE, mode |-> IF loop THEN "new" ELSE "done"]
        ELSE IF ~na
        THEN IF fr.pos /\ E[f].pos # << FALSE >>
             THEN [entries |-> E, err |-> TRUE, mode |-> "done"]
             ELSE [entries |-> IF fr.pos THEN Put(E, f, [E[f] EXCEPT !.pos = << TRUE >>]) ELSE E,
                   err |-> FALSE, mode |-> IF loop THEN "append" ELSE "done"]
        ELSE IF ~seen
        THEN [entries |-> Put(E, f, [alphas |-> Append(E[f].alphas, fr.alpha), pos |-> Append(E[f].pos, fr.pos)]),
              err |-> FALSE, mode |-> IF loop THEN "append" ELSE "done"]
        ELSE LET idx == index_of(E[f].alphas, fr.alpha)
             IN  IF fr.pos /\ E[f].pos[idx]
                 THEN [entries |-> E, err |-> TRUE, mode |-> "done"]
                 ELSE [entries |-> IF fr.pos THEN Put(E, f, [E[f] EXCEPT !.pos[idx] = TRUE]) ELSE E,
                       err |-> FALSE, mode |-> IF loop THEN "append" ELSE "done"]

\* meta_deps[func].add(req.func); meta_deps[req.func]
add_dep(D, f, req_func) ==
    LET D1 == Put(D, f, (IF f \in DOMAIN D THEN D[f] ELSE {}) \cup { req_func })
    IN  IF req_func \in DOMAIN D1 THEN D1 ELSE Put(D1, req_func, {})

Top == frames[Len(frames)]

Popped == SubSeq(frames, 1, Len(frames) - 1)

\* a call of _parse_specs on a spec list, over a registry
AddInit ==
    /\ reg \in Registries
    /\ pending \in UNION { [1..n -> spec_calls(reg)] : n \in 1..MaxCalls }
    /\ frames = << >>
    /\ entries = << >>
    /\ edges = << >>
    /\ phase = "adding"

\* the loop over the specs calls add_func(func, alpha, i)
CallAddFunc ==
    /\ phase = "adding" /\ frames = << >> /\ pending # << >>
    /\ frames' = << Frame(pending[1].func, pending[1].alpha, TRUE) >>
    /\ pending' = Tail(pending)
    /\ UNCHANGED << reg, entries, edges, phase >>
    /\ UNCHANGED planVars
    /\ UNCHANGED estVars
    /\ UNCHANGED flannVars
    /\ UNCHANGED metaVars
    /\ UNCHANGED rhoVars

\* a called add_func finds or makes its entry
EnterAddFunc ==
    /\ phase = "adding" /\ frames # << >> /\ Top.mode = "enter"
    /\ LET r == enter(entries, reg, Top)
       IN  /\ entries' = r.entries
           /\ phase' = IF r.err THEN "raised" ELSE phase
           /\ frames' = [frames EXCEPT ![Len(frames)].mode = r.mode]
    /\ UNCHANGED << reg, pending, edges >>
    /\ UNCHANGED planVars
    /\ UNCHANGED estVars
    /\ UNCHANGED flannVars
    /\ UNCHANGED metaVars
    /\ UNCHANGED rhoVars

\* one iteration of "for req in func.needs_results" up to its call
CallRequired ==
    /\ phase = "adding" /\ frames # << >> /\ Top.mode \in { "new", "append" }
    /\ Top.k <= Len(reg.needs_results[Top.func])
    /\ Len(frames) < MaxDepth
    /\ LET req == reg.needs_results[Top.func][Top.k]
       IN  frames' = Append(frames, Frame(req.func, req_alpha_by(req.rule, Top.alpha), FALSE))
    /\ UNCHANGED << reg, pending, entries, edges, phase >>
    /\ UNCHANGED planVars
    /\ UNCHANGED estVars
    /\ UNCHANGED flannVars
    /\ UNCHANGED metaVars
    /\ UNCHANGED rhoVars

\* add_func returns, and the iteration that called it goes on
ReturnAddFunc ==
    /\ phase = "adding" /\ frames # << >>
    /\ \/ Top.mode = "done"
       \/ Top.mode \in { "new", "append" } /\ Top.k > Len(reg.needs_results[Top.func])
    /\ IF Len(frames) = 1
       THEN /\ frames' = << >>
            /\ UNCHANGED edges
       ELSE LET caller == frames[Len(frames) - 1]
            IN  /\ frames' = [Popped EXCEPT ![Len(frames) - 1].k = caller.k + 1]
                /\ edges' = IF caller.mode = "new" THEN add_dep(edges, caller.func, Top.func) ELSE edges
    /\ UNCHANGED << reg, pending, entries, phase >>
    /\ UNCHANGED planVars
    /\ UNCHANGED estVars
    /\ UNCHANGED flannVars
    /\ UNCHANGED metaVars
    /\ UNCHANGED rhoVars

\* the loop over the specs is over: topological_sort(meta_deps). The two
\* passes in between go once through the entries that the calls have left
SortMetaDeps ==
    /\ phase = "adding" /\ frames = << >> /\ pending = << >>
    /\ phase' = "sorting"
    /\ entry' = "topological_sort"
    /\ sort_input' = edges
    /\ topo' = TopoStart(edges)
    /\ pc' = "sort"
    /\ UNCHANGED << specs, parse, plan >>
    /\ UNCHANGED << reg, pending, frames, entries, edges >>
    /\ UNCHANGED estVars
    /\ UNCHANGED flannVars
    /\ UNCHANGED metaVars
    /\ UNCHANGED rhoVars

AddNext == CallAddFunc \/ EnterAddFunc \/ CallRequired \/ ReturnAddFunc \/ SortMetaDeps \/ TopoEnter \/ TopoPop \/ TopoReturn

AddStart == AddInit /\ PlanIdle /\ EstIdle /\ FlannIdle /\ MetaIdle /\ RhoIdle

\* python runs the next statement of a call that has one
AddSpecLive == AddStart /\ [][AddNext]_vars /\ WF_vars(AddNext)

parse_over == phase = "raised" \/ (phase = "sorting" /\ pc \in { "sorted", "raised" })

\* a function that requires itself, or p and q that require each other
requires(R, f, g) == \E i \in 1..Len(R.needs_results[f]) : R.needs_results[f][i].func = g

\* the add_func calls that are in their loop over the requirements are of
\* different functions, or of different alphas of a function that takes one
loops_differ ==
    \A i \in 1..Len(frames) : \A j \in (i + 1)..Len(frames) :
        (frames[i].mode \in { "new", "append" } /\ frames[j].mode \in { "new", "append" }) =>
            \/ frames[i].func # frames[j].func
            \/ reg.needs_alpha[frames[i].func] /\ frames[i].alpha # frames[j].alpha

\* the nodes topological_sort was handed are those it has ordered, those
\* that are available and those it still waits for, each node once
sort_splits ==
    /\ Len(topo.order) + Cardinality(topo.available) + Cardinality(DOMAIN topo.deps) = Cardinality(DOMAIN sort_input)
    /\ Range(topo.order) \cup topo.available \cup DOMAIN topo.deps = DOMAIN sort_input

\* C27: every call of _parse_specs on a finite spec list, over a finite
\* registry whose alpha rules map into a finite set of alphas and whose
\* requirements may be cyclic, comes to its end, by a return or by a raise:
\* add_func goes through the requirements only of a new entry or of a new
\* alpha, so that no two running loops are of the same function and alpha,
\* and topological_sort takes every node out of its dict at most once.
C27_ParseTerminates == [](loops_differ /\ (phase = "sorting" => sort_splits)) /\ <>parse_over

\* a parse over a registry in which p and q require each other, p reached
\* under two alphas, that came to the end of topological_sort
C27_Witness ==
    /\ phase = "sorting" /\ pc \in { "sorted", "raised" }
    /\ requires(reg, "p", "q") /\ requires(reg, "q", "p")
    /\ "p" \in DOMAIN entries /\ Len(entries["p"].alphas) >= 2
    /\ "q" \in DOMAIN entries

====
